---- MODULE Spec2Model ----
(***************************************************************************)
(* Model of pi-runner: the BrowserStack video test runner (runTests,       *)
(* testVideoPlay, loadMobileDevices) and its queue store (db.js).          *)
(*                                                                         *)
(* Spec      : one run of the runner, one step per await / statement.      *)
(* StoreSpec : arbitrary sequences of calls of the store's exported API.   *)
(***************************************************************************)
EXTENDS Integers, Sequences, FiniteSets, TLC

(***************************************************************************)
(* Bounds of the model                                                     *)
(***************************************************************************)
\* rows in the table when a run starts / urls known to the store clients
MaxRows == 2
\* last value of the store clock (NOW()) in StoreSpec
MaxClock == 4
\* last value of the SERIAL id sequence in StoreSpec
MaxSerial == 3

(***************************************************************************)
(* Program constants                                                       *)
(***************************************************************************)
BATCH_SIZE == 5
\* playButtonSelectors.length
NumCssSelectors == 4

\* SQL NULL of a TIMESTAMP column (real timestamps are >= 1)
NullTime == 0
\* SQL NULL / JS null of a text value
NullText == "NULL"
\* process has not exited yet
NoExit == -1

Min(a, b) == IF a < b THEN a ELSE b
Range(s) == {s[k] : k \in 1..Len(s)}

(***************************************************************************)
(* Device catalog loader                                                   *)
(***************************************************************************)
FallbackDevices ==
    << [device |-> "Samsung Galaxy S21", os_version |-> "12.0", os |-> "android", browser |-> "chrome"],
       [device |-> "Samsung Galaxy S22", os_version |-> "12.0", os |-> "android", browser |-> "chrome"],
       [device |-> "Google Pixel 6", os_version |-> "12.0", os |-> "android", browser |-> "chrome"] >>

\* `${device.device}-${device.os_version}`: one string
DeviceKey(d) == d.device \o "-" \o d.os_version

RECURSIVE FilterRealMobile(_)
FilterRealMobile(browsers) ==
    IF browsers = <<>> THEN <<>>
    ELSE IF Head(browsers).real_mobile = TRUE
         THEN <<Head(browsers)>> \o FilterRealMobile(Tail(browsers))
         ELSE FilterRealMobile(Tail(browsers))

\* mutant: a later entry with a key already seen replaces the kept one
RECURSIVE Dedup_KeepLast(_, _, _)
Dedup_KeepLast(mobileDevices, seen, uniqueDevices) ==
    IF mobileDevices = <<>> THEN uniqueDevices
    ELSE LET d == Head(mobileDevices) IN
         IF DeviceKey(d) \notin seen
         THEN Dedup_KeepLast(Tail(mobileDevices), seen \cup {DeviceKey(d)}, Append(uniqueDevices, d))
         ELSE Dedup_KeepLast(Tail(mobileDevices), seen,
                             [k \in 1..Len(uniqueDevices) |->
                                 IF DeviceKey(uniqueDevices[k]) = DeviceKey(d) THEN d ELSE uniqueDevices[k]])

RECURSIVE Dedup(_, _, _)
Dedup(mobileDevices, seen, uniqueDevices) ==
    IF mobileDevices = <<>> THEN uniqueDevices
    ELSE LET d == Head(mobileDevices) IN
         IF DeviceKey(d) \notin seen
         THEN Dedup(Tail(mobileDevices), seen \cup {DeviceKey(d)}, Append(uniqueDevices, d))
         ELSE Dedup(Tail(mobileDevices), seen, uniqueDevices)

\* the catalog file: its state is "unreadable" (readFileSync throws),
\* "unparseable" (JSON.parse throws), "notArray" (browsers.filter throws) or
\* "ok", and then browsers is the parsed list of descriptors
CatalogFile(state, browsers) == [state |-> state, browsers |-> browsers]
CatalogFails(cat) == cat.state \in {"unreadable", "unparseable", "notArray"}

loadMobileDevices(cat) ==
    IF CatalogFails(cat) THEN FallbackDevices
    ELSE Dedup(FilterRealMobile(cat.browsers), {}, <<>>)

\* devices[Math.floor(Math.random() * devices.length)]: any member, or
\* undefined for an empty array
NoDevice == [device |-> NullText, os_version |-> NullText, os |-> NullText]
getRandomDevice(devices) == IF devices = <<>> THEN {NoDevice} ELSE Range(devices)

CredentialsPresent(e) == e.BROWSERSTACK_USERNAME /\ e.BROWSERSTACK_ACCESS_KEY

\* "throw" when a credential is absent, else the browser of the capabilities
getBrowserStackCapabilities(e, d) ==
    IF ~CredentialsPresent(e) THEN "throw"
    ELSE IF d.os = "ios" THEN "safari" ELSE "chrome"

(***************************************************************************)
(* Queue store (db.js): the table is the sequence of its rows              *)
(***************************************************************************)
NewRow(id, url, userName) ==
    [id |-> id, url |-> url, user_name |-> userName, view_count |-> 0,
     last_played_at |-> NullTime, status |-> "pending",
     device_used |-> NullText, error_message |-> NullText, updated_at |-> NullTime]

HasUrl(t, url) == \E k \in 1..Len(t) : t[k].url = url

\* mutant: INSERT ... ON CONFLICT (url) DO UPDATE, which rewrites the existing row
insertRow_Upsert(t, id, url, userName, ts) ==
    IF HasUrl(t, url)
    THEN [k \in 1..Len(t) |->
            IF t[k].url = url
            THEN [NewRow(t[k].id, url, userName) EXCEPT !.updated_at = ts]
            ELSE t[k]]
    ELSE Append(t, [NewRow(id, url, userName) EXCEPT !.updated_at = ts])

\* INSERT ... ON CONFLICT (url) DO NOTHING
insertRow(t, id, url, userName, ts) ==
    IF HasUrl(t, url) THEN t
    ELSE Append(t, [NewRow(id, url, userName) EXCEPT !.updated_at = ts])

updateViewCount(t, id, deviceUsed, ts) ==
    [k \in 1..Len(t) |->
        IF t[k].id = id
        THEN [t[k] EXCEPT !.view_count = @ + 1,
                          !.last_played_at = ts,
                          !.status = "completed",
                          !.device_used = deviceUsed,
                          !.updated_at = ts]
        ELSE t[k]]

markError(t, id, errorMessage, ts) ==
    [k \in 1..Len(t) |->
        IF t[k].id = id
        THEN [t[k] EXCEPT !.status = "error",
                          !.error_message = errorMessage,
                          !.updated_at = ts]
        ELSE t[k]]

\* WHERE status != 'error'
Qualifies(r) == r.status # "error"

\* last_played_at ASC NULLS FIRST
LastPlayedBefore(a, b) ==
    \/ a = NullTime /\ b # NullTime
    \/ a # NullTime /\ b # NullTime /\ a < b

\* mutant: ORDER BY view_count ASC alone
Precedes_ViewCountOnly(r1, r2) == r1.view_count < r2.view_count

\* ORDER BY view_count ASC, last_played_at ASC NULLS FIRST
Precedes(r1, r2) ==
    \/ r1.view_count < r2.view_count
    \/ r1.view_count = r2.view_count /\ LastPlayedBefore(r1.last_played_at, r2.last_played_at)

\* SELECT id, url, user_name, post_id, view_count
Project(r) == [id |-> r.id, url |-> r.url, user_name |-> r.user_name, view_count |-> r.view_count]

\* every result the query may return: rows that tie in the ORDER BY key come
\* in an order the database chooses
getNextBatch(t, limit) ==
    LET Q == {k \in 1..Len(t) : Qualifies(t[k])}
        n == Min(limit, Cardinality(Q))
        Picks == {s \in [1..n -> Q] :
                    /\ \A a, b \in 1..n : a < b => s[a] # s[b] /\ ~Precedes(t[s[b]], t[s[a]])
                    /\ \A k \in Q \ {s[a] : a \in 1..n} :
                          \A a \in 1..n : ~Precedes(t[k], t[s[a]])}
    IN  {[a \in 1..n |-> Project(t[s[a]])] : s \in Picks}

RowOf(t, id) == CHOOSE r \in Range(t) : r.id = id
StatusOf(t, id) == RowOf(t, id).status
ViewCountOf(t, id) == RowOf(t, id).view_count

RECURSIVE SumViews(_)
SumViews(t) == IF t = <<>> THEN 0 ELSE Head(t).view_count + SumViews(Tail(t))

\* the row of aggregates: SUM and AVG over no rows are NULL (the empty
\* sequence); AVG is kept as the exact quotient <<sum, count>>
getStats(t) ==
    [total |-> Len(t),
     total_views |-> IF t = <<>> THEN <<>> ELSE <<SumViews(t)>>,
     errors |-> Cardinality({k \in 1..Len(t) : t[k].status = "error"}),
     avg_views |-> IF t = <<>> THEN <<>> ELSE <<SumViews(t), Len(t)>>]

\* runTests has not assigned stats
NoStats == [total |-> 0, total_views |-> <<>>, errors |-> 0, avg_views |-> <<>>]

(***************************************************************************)
(* State                                                                   *)
(***************************************************************************)
VARIABLES
    env,              \* process.env: which required settings are present
    catalog,          \* contents of browsers.json
    table,            \* video_urls
    serial,           \* next value of the SERIAL id sequence
    now,              \* NOW() of the database
    pool,             \* "open" | "ended" (pg Pool.ending)
    pc,               \* position of runTests / testVideoPlay
    availableDevices, \* runTests: const availableDevices
    videos,           \* runTests: const videos
    device,           \* runTests: const device
    driver,           \* "none" | "open" | "quit"
    i,                \* runTests: loop index
    results,          \* runTests: const results
    result,           \* testVideoPlay: const result
    playButton,       \* testVideoPlay: let playButton (TRUE = an element)
    sel,              \* testVideoPlay: index into playButtonSelectors
    caught,           \* testVideoPlay: error.message of the caught exception
    uncaught,         \* message of the error propagating out of runTests
    exitCode,         \* process exit status
    calls,            \* history: number of calls of each operation
    opAfterClose,     \* history: a store operation was issued after close()
    cmdAfterQuit,     \* history: a driver command was issued after quit()
    lastOp,           \* history: the last store operation called
    lastBatch,        \* history: the rows the last getNextBatch returned
    everError,        \* history: ids whose status was set to 'error'
    stats,            \* runTests: const stats (the row getStats returned)
    writes,           \* history: the outcome writes testVideoPlay issued, in order
    tried,            \* history: lookup strategies tried for the current video
    lastArg,          \* history: arguments of the last store operation
    lastThrew         \* history: the last store operation rejected

storeVars == <<table, serial, now, pool>>
runVars == <<env, catalog, pc, availableDevices, videos, device, driver, i, results,
             result, playButton, sel, caught, uncaught, exitCode,
             calls, opAfterClose, cmdAfterQuit, stats, writes, tried>>
histVars == <<lastOp, lastBatch, everError, lastArg, lastThrew>>
vars == <<env, catalog, table, serial, now, pool, pc, availableDevices, videos, device,
          driver, i, results, result, playButton, sel, caught, uncaught, exitCode,
          calls, opAfterClose, cmdAfterQuit, lastOp, lastBatch, everError,
          stats, writes, tried, lastArg, lastThrew>>

Ops == {"loadMobileDevices", "getRandomDevice", "build", "quit", "testVideoPlay",
        "initSchema", "getNextBatch", "updateViewCount", "markError", "getStats", "close"}
StoreOps == {"initSchema", "getNextBatch", "updateViewCount", "markError", "getStats"}

NoResult == [id |-> 0, url |-> 0, success |-> FALSE, error |-> NullText,
             playButtonFound |-> FALSE, playButtonClicked |-> FALSE]

(***************************************************************************)
(* Initial states                                                          *)
(***************************************************************************)
Envs == [DATABASE_URL : BOOLEAN, BROWSERSTACK_USERNAME : BOOLEAN, BROWSERSTACK_ACCESS_KEY : BOOLEAN]

IPhone == [device |-> "iPhone 14", os_version |-> "16", os |-> "ios", real_mobile |-> TRUE]
Emulator == [device |-> "Google Pixel 7", os_version |-> "13.0", os |-> "android", real_mobile |-> FALSE]

\* catalogs a run may find: failing ones, one without a real device, one with
\* a duplicated real device
RunCatalogs == {CatalogFile("unreadable", <<>>), CatalogFile("ok", <<Emulator>>),
                CatalogFile("ok", <<IPhone, Emulator, IPhone>>)}

\* what earlier runs can have left of a row: never played, played, failed on
\* the first play, failed after a successful play
RowStates ==
    { [view_count |-> 0, last_played_at |-> NullTime, status |-> "pending", error_message |-> NullText],
      [view_count |-> 1, last_played_at |-> 1, status |-> "completed", error_message |-> NullText],
      [view_count |-> 0, last_played_at |-> NullTime, status |-> "error", error_message |-> "Play button not found"],
      [view_count |-> 1, last_played_at |-> 1, status |-> "error", error_message |-> "Play button not found"] }

InitRow(k, st) ==
    [NewRow(k, k, "user") EXCEPT !.view_count = st.view_count,
                                 !.last_played_at = st.last_played_at,
                                 !.status = st.status,
                                 !.error_message = st.error_message,
                                 !.device_used = IF st.last_played_at = NullTime THEN NullText ELSE "Google Pixel 7",
                                 !.updated_at = 1]

InitTables ==
    UNION {{[k \in 1..n |-> InitRow(k, f[k])] : f \in [1..n -> RowStates]} : n \in 0..MaxRows}

InitRunLocals ==
    /\ availableDevices = <<>>
    /\ videos = <<>>
    /\ device = NoDevice
    /\ driver = "none"
    /\ i = 0
    /\ results = <<>>
    /\ result = NoResult
    /\ playButton = FALSE
    /\ sel = 0
    /\ caught = NullText
    /\ uncaught = NullText
    /\ exitCode = NoExit
    /\ calls = [o \in Ops |-> 0]
    /\ opAfterClose = FALSE
    /\ cmdAfterQuit = FALSE
    /\ stats = NoStats
    /\ writes = <<>>
    /\ tried = <<>>

InitHist ==
    /\ lastOp = "none"
    /\ lastBatch = <<>>
    /\ everError = {}
    /\ lastArg = <<>>
    /\ lastThrew = FALSE

Init ==
    /\ env \in Envs
    /\ catalog \in RunCatalogs
    /\ table \in InitTables
    /\ serial = Len(table) + 1
    /\ now = 2
    /\ pool = "open"
    /\ pc = "start"
    /\ InitRunLocals
    /\ InitHist

(***************************************************************************)
(* Helpers of the run's steps                                              *)
(***************************************************************************)
Called(op) == calls' = [calls EXCEPT ![op] = @ + 1]

\* a store operation is issued (history only)
StoreCall(op) ==
    /\ Called(op)
    /\ opAfterClose' = (opAfterClose \/ pool = "ended")
    /\ lastOp' = op

\* a write through the store's API: the result of the read before it is
\* no longer the last result (history only)
ForgetReads ==
    /\ lastBatch' = <<>>
    /\ stats' = NoStats

\* arguments and outcome of the store operation issued (history only)
StoreArgs(args, threw) ==
    /\ lastArg' = args
    /\ lastThrew' = threw

\* testVideoPlay issued the write of the current record's outcome (history only)
OutcomeWrite(op, ok) == writes' = Append(writes, [id |-> result.id, op |-> op, ok |-> ok])

\* a command is sent to the remote session (history only)
DriverCmd == cmdAfterQuit' = (cmdAfterQuit \/ driver = "quit")

\* process.exit(code)
Exit(code) ==
    /\ pc' = "exited"
    /\ exitCode' = code

\* an error leaves runTests: runTests().catch will handle it
Throw(msg) ==
    /\ uncaught' = msg
    /\ pc' = "catch"

\* await db.close(); process.exit(code). pg's Pool.end() resolves on its first
\* call and rejects when the pool is already ending
CloseThen(code) ==
    /\ Called("close")
    /\ IF pool = "ended"
       THEN Throw("Called end on pool more than once") /\ UNCHANGED <<pool, exitCode>>
       ELSE pool' = "ended" /\ Exit(code) /\ UNCHANGED uncaught

(***************************************************************************)
(* runTests                                                                *)
(***************************************************************************)
\* mutant: only DATABASE_URL is validated up front
ValidateEnv_DatabaseOnly ==
    /\ pc = "start"
    /\ IF ~env.DATABASE_URL THEN Exit(1)
       ELSE pc' = "load" /\ UNCHANGED exitCode
    /\ UNCHANGED <<env, catalog, table, serial, now, pool, availableDevices, videos, device,
                   driver, i, results, result, playButton, sel, caught, uncaught, calls,
                   opAfterClose, cmdAfterQuit, lastOp, lastBatch, everError, stats, writes,
                   tried, lastArg, lastThrew>>

\* Validate environment variables
ValidateEnv ==
    /\ pc = "start"
    /\ IF ~env.DATABASE_URL THEN Exit(1)
       ELSE IF ~CredentialsPresent(env) THEN Exit(1)
       ELSE pc' = "load" /\ UNCHANGED exitCode
    /\ UNCHANGED <<env, catalog, table, serial, now, pool, availableDevices, videos, device,
                   driver, i, results, result, playButton, sel, caught, uncaught, calls,
                   opAfterClose, cmdAfterQuit, lastOp, lastBatch, everError, stats, writes,
                   tried, lastArg, lastThrew>>

\* const availableDevices = loadMobileDevices()
LoadDevices ==
    /\ pc = "load"
    /\ availableDevices' = loadMobileDevices(catalog)
    /\ Called("loadMobileDevices")
    /\ pc' = "initSchema"
    /\ UNCHANGED <<env, catalog, table, serial, now, pool, videos, device, driver, i, results,
                   result, playButton, sel, caught, uncaught, exitCode, opAfterClose,
                   cmdAfterQuit, lastOp, lastBatch, everError, stats, writes, tried, lastArg,
                   lastThrew>>

\* await db.initSchema(): CREATE ... IF NOT EXISTS leaves an existing table alone
InitSchemaOk ==
    /\ pc = "initSchema"
    /\ pool = "open"
    /\ StoreCall("initSchema")
    /\ pc' = "getBatch"
    /\ StoreArgs(<<>>, FALSE)
    /\ UNCHANGED <<env, catalog, table, serial, now, pool, availableDevices, videos, device,
                   driver, i, results, result, playButton, sel, caught, uncaught, exitCode,
                   cmdAfterQuit, lastBatch, everError, stats, writes, tried>>

\* await db.initSchema() rejects
InitSchemaFail ==
    /\ pc = "initSchema"
    /\ StoreCall("initSchema")
    /\ Throw("initSchema failed")
    /\ StoreArgs(<<>>, TRUE)
    /\ UNCHANGED <<env, catalog, table, serial, now, pool, availableDevices, videos, device,
                   driver, i, results, result, playButton, sel, caught, exitCode, cmdAfterQuit,
                   lastBatch, everError, stats, writes, tried>>

\* mutant: the batch is not tested for emptiness
GetBatchOk_NoEmptyCheck ==
    /\ pc = "getBatch"
    /\ pool = "open"
    /\ StoreCall("getNextBatch")
    /\ \E b \in getNextBatch(table, BATCH_SIZE) :
          /\ videos' = b
          /\ lastBatch' = b
          /\ pc' = "selectDevice"
    /\ StoreArgs(<<BATCH_SIZE>>, FALSE)
    /\ UNCHANGED <<env, catalog, table, serial, now, pool, availableDevices, device, driver, i,
                   results, result, playButton, sel, caught, uncaught, exitCode, cmdAfterQuit,
                   everError, stats, writes, tried>>

\* const videos = await db.getNextBatch(BATCH_SIZE)
GetBatchOk ==
    /\ pc = "getBatch"
    /\ pool = "open"
    /\ StoreCall("getNextBatch")
    /\ \E b \in getNextBatch(table, BATCH_SIZE) :
          /\ videos' = b
          /\ lastBatch' = b
          /\ pc' = IF Len(b) = 0 THEN "closeEmpty" ELSE "selectDevice"
    /\ StoreArgs(<<BATCH_SIZE>>, FALSE)
    /\ UNCHANGED <<env, catalog, table, serial, now, pool, availableDevices, device, driver, i,
                   results, result, playButton, sel, caught, uncaught, exitCode, cmdAfterQuit,
                   everError, stats, writes, tried>>

\* await db.getNextBatch(BATCH_SIZE) rejects
GetBatchFail ==
    /\ pc = "getBatch"
    /\ StoreCall("getNextBatch")
    /\ Throw("getNextBatch failed")
    /\ StoreArgs(<<BATCH_SIZE>>, TRUE)
    /\ UNCHANGED <<env, catalog, table, serial, now, pool, availableDevices, videos, device,
                   driver, i, results, result, playButton, sel, caught, exitCode, cmdAfterQuit,
                   lastBatch, everError, stats, writes, tried>>

\* videos.length === 0: await db.close(); process.exit(0)
CloseEmpty ==
    /\ pc = "closeEmpty"
    /\ CloseThen(0)
    /\ UNCHANGED <<env, catalog, table, serial, now, availableDevices, videos, device, driver,
                   i, results, result, playButton, sel, caught, opAfterClose, cmdAfterQuit,
                   lastOp, lastBatch, everError, stats, writes, tried, lastArg, lastThrew>>

\* const device = getRandomDevice(availableDevices); device.device throws a
\* TypeError when device is undefined; then getBrowserStackCapabilities(device)
SelectDevice ==
    /\ pc = "selectDevice"
    /\ Called("getRandomDevice")
    /\ \E d \in getRandomDevice(availableDevices) :
          IF d = NoDevice
          THEN Throw("Cannot read properties of undefined") /\ UNCHANGED device
          ELSE /\ device' = d
               /\ IF getBrowserStackCapabilities(env, d) = "throw"
                  THEN Throw("credentials are required")
                  ELSE pc' = "build" /\ UNCHANGED uncaught
    /\ UNCHANGED <<env, catalog, table, serial, now, pool, availableDevices, videos, driver, i,
                   results, result, playButton, sel, caught, exitCode, opAfterClose,
                   cmdAfterQuit, lastOp, lastBatch, everError, stats, writes, tried, lastArg,
                   lastThrew>>

\* driver = await new Builder()...build()
BuildOk ==
    /\ pc = "build"
    /\ Called("build")
    /\ driver' = "open"
    /\ results' = <<>>
    /\ i' = 0
    /\ pc' = "loop"
    /\ UNCHANGED <<env, catalog, table, serial, now, pool, availableDevices, videos, device,
                   result, playButton, sel, caught, uncaught, exitCode, opAfterClose,
                   cmdAfterQuit, lastOp, lastBatch, everError, stats, writes, tried, lastArg,
                   lastThrew>>

\* mutant: the failed session open is logged and the run carries on
BuildFail_Continue ==
    /\ pc = "build"
    /\ Called("build")
    /\ results' = <<>>
    /\ i' = 0
    /\ pc' = "loop"
    /\ UNCHANGED <<env, catalog, table, serial, now, pool, availableDevices, videos, device,
                   driver, result, playButton, sel, caught, uncaught, exitCode, opAfterClose,
                   cmdAfterQuit, lastOp, lastBatch, everError, stats, writes, tried, lastArg,
                   lastThrew>>

\* build() rejects: the catch block of the session open
BuildFail ==
    /\ pc = "build"
    /\ Called("build")
    /\ pc' = "closeSessionFail"
    /\ UNCHANGED <<env, catalog, table, serial, now, pool, availableDevices, videos, device,
                   driver, i, results, result, playButton, sel, caught, uncaught, exitCode,
                   opAfterClose, cmdAfterQuit, lastOp, lastBatch, everError, stats, writes,
                   tried, lastArg, lastThrew>>

\* mutant: the session-open failure exits without closing the store
CloseSessionFail_NoClose ==
    /\ pc = "closeSessionFail"
    /\ Exit(1)
    /\ UNCHANGED <<env, catalog, table, serial, now, pool, availableDevices, videos, device,
                   driver, i, results, result, playButton, sel, caught, uncaught, calls,
                   opAfterClose, cmdAfterQuit, lastOp, lastBatch, everError, stats, writes,
                   tried, lastArg, lastThrew>>

\* await db.close(); process.exit(1) after the failed session open
CloseSessionFail ==
    /\ pc = "closeSessionFail"
    /\ CloseThen(1)
    /\ UNCHANGED <<env, catalog, table, serial, now, availableDevices, videos, device, driver,
                   i, results, result, playButton, sel, caught, opAfterClose, cmdAfterQuit,
                   lastOp, lastBatch, everError, stats, writes, tried, lastArg, lastThrew>>

\* mutant: the loop walks the batch from its last record to its first
LoopStep_Reversed ==
    /\ pc = "loop"
    /\ IF i < Len(videos)
       THEN /\ result' = [NoResult EXCEPT !.id = videos[Len(videos) - i].id,
                                         !.url = videos[Len(videos) - i].url]
            /\ playButton' = FALSE
            /\ sel' = 0
            /\ tried' = <<>>
            /\ Called("testVideoPlay")
            /\ pc' = "tv_get"
       ELSE /\ pc' = "finally"
            /\ UNCHANGED <<result, playButton, sel, tried, calls>>
    /\ UNCHANGED <<env, catalog, table, serial, now, pool, availableDevices, videos, device,
                   driver, i, results, caught, uncaught, exitCode, opAfterClose, cmdAfterQuit,
                   lastOp, lastBatch, everError, stats, writes, lastArg, lastThrew>>

\* for (let i = 0; i < videos.length; i++): call testVideoPlay(driver, videos[i], ...)
\* or leave the loop
LoopStep ==
    /\ pc = "loop"
    /\ IF i < Len(videos)
       THEN /\ result' = [NoResult EXCEPT !.id = videos[i + 1].id, !.url = videos[i + 1].url]
            /\ playButton' = FALSE
            /\ sel' = 0
            /\ tried' = <<>>
            /\ Called("testVideoPlay")
            /\ pc' = "tv_get"
       ELSE /\ pc' = "finally"
            /\ UNCHANGED <<result, playButton, sel, tried, calls>>
    /\ UNCHANGED <<env, catalog, table, serial, now, pool, availableDevices, videos, device,
                   driver, i, results, caught, uncaught, exitCode, opAfterClose, cmdAfterQuit,
                   lastOp, lastBatch, everError, stats, writes, lastArg, lastThrew>>

\* await driver.sleep(1000) between two videos
GapOk ==
    /\ pc = "gap"
    /\ driver = "open"
    /\ DriverCmd
    /\ i' = i + 1
    /\ pc' = "loop"
    /\ UNCHANGED <<env, catalog, table, serial, now, pool, availableDevices, videos, device,
                   driver, results, result, playButton, sel, caught, uncaught, exitCode, calls,
                   opAfterClose, lastOp, lastBatch, everError, stats, writes, tried, lastArg,
                   lastThrew>>

\* await driver.sleep(1000) rejects: the loop is left through finally
GapFail ==
    /\ pc = "gap"
    /\ DriverCmd
    /\ uncaught' = "sleep failed"
    /\ pc' = "finally"
    /\ UNCHANGED <<env, catalog, table, serial, now, pool, availableDevices, videos, device,
                   driver, i, results, result, playButton, sel, caught, exitCode, calls,
                   opAfterClose, lastOp, lastBatch, everError, stats, writes, tried, lastArg,
                   lastThrew>>

\* finally: await driver.quit(); a pending error is rethrown
QuitOk ==
    /\ pc = "finally"
    /\ Called("quit")
    /\ driver' = "quit"
    /\ pc' = IF uncaught # NullText THEN "catch" ELSE "stats"
    /\ UNCHANGED <<env, catalog, table, serial, now, pool, availableDevices, videos, device, i,
                   results, result, playButton, sel, caught, uncaught, exitCode, opAfterClose,
                   cmdAfterQuit, lastOp, lastBatch, everError, stats, writes, tried, lastArg,
                   lastThrew>>

\* finally: await driver.quit() rejects
QuitFail ==
    /\ pc = "finally"
    /\ Called("quit")
    /\ driver' = "quit"
    /\ Throw("quit failed")
    /\ UNCHANGED <<env, catalog, table, serial, now, pool, availableDevices, videos, device, i,
                   results, result, playButton, sel, caught, exitCode, opAfterClose,
                   cmdAfterQuit, lastOp, lastBatch, everError, stats, writes, tried, lastArg,
                   lastThrew>>

\* const stats = await db.getStats()
StatsOk ==
    /\ pc = "stats"
    /\ pool = "open"
    /\ StoreCall("getStats")
    /\ pc' = "closeEnd"
    /\ StoreArgs(<<>>, FALSE)
    /\ stats' = getStats(table)
    /\ UNCHANGED <<env, catalog, table, serial, now, pool, availableDevices, videos, device,
                   driver, i, results, result, playButton, sel, caught, uncaught, exitCode,
                   cmdAfterQuit, lastBatch, everError, writes, tried>>

\* await db.getStats() rejects
StatsFail ==
    /\ pc = "stats"
    /\ StoreCall("getStats")
    /\ Throw("getStats failed")
    /\ StoreArgs(<<>>, TRUE)
    /\ UNCHANGED <<env, catalog, table, serial, now, pool, availableDevices, videos, device,
                   driver, i, results, result, playButton, sel, caught, exitCode, cmdAfterQuit,
                   lastBatch, everError, stats, writes, tried>>

\* results.filter(r => !r.success).length
Failed(rs) == Cardinality({k \in 1..Len(rs) : ~rs[k].success})

\* mutant: the exit status follows the passed count instead of the failed count
ExitStatus_PassedAny(rs) == IF Failed(rs) < Len(rs) THEN 0 ELSE 1

\* process.exit(failed > 0 ? 1 : 0)
ExitStatus(rs) == IF Failed(rs) > 0 THEN 1 ELSE 0

\* await db.close(); process.exit(failed > 0 ? 1 : 0)
CloseEnd ==
    /\ pc = "closeEnd"
    /\ CloseThen(ExitStatus(results))
    /\ UNCHANGED <<env, catalog, table, serial, now, availableDevices, videos, device, driver,
                   i, results, result, playButton, sel, caught, opAfterClose, cmdAfterQuit,
                   lastOp, lastBatch, everError, stats, writes, tried, lastArg, lastThrew>>

\* mutant: the handler of runTests().catch exits without closing the store
Catch_NoClose ==
    /\ pc = "catch"
    /\ Exit(1)
    /\ UNCHANGED <<env, catalog, table, serial, now, pool, availableDevices, videos, device,
                   driver, i, results, result, playButton, sel, caught, uncaught, calls,
                   opAfterClose, cmdAfterQuit, lastOp, lastBatch, everError, stats, writes,
                   tried, lastArg, lastThrew>>

\* runTests().catch: await db.close(); process.exit(1). A rejection of close()
\* inside the handler is an unhandled rejection, which also ends the process with 1
Catch ==
    /\ pc = "catch"
    /\ Called("close")
    /\ pool' = "ended"
    /\ Exit(1)
    /\ UNCHANGED <<env, catalog, table, serial, now, availableDevices, videos, device, driver,
                   i, results, result, playButton, sel, caught, uncaught, opAfterClose,
                   cmdAfterQuit, lastOp, lastBatch, everError, stats, writes, tried, lastArg,
                   lastThrew>>

(***************************************************************************)
(* testVideoPlay                                                           *)
(***************************************************************************)
\* await driver.get(videoRecord.url)
TV_GetOk ==
    /\ pc = "tv_get"
    /\ driver = "open"
    /\ DriverCmd
    /\ pc' = "tv_settle"
    /\ UNCHANGED <<env, catalog, table, serial, now, pool, availableDevices, videos, device,
                   driver, i, results, result, playButton, sel, caught, uncaught, exitCode,
                   calls, opAfterClose, lastOp, lastBatch, everError, stats, writes, tried,
                   lastArg, lastThrew>>

\* driver.get rejects: caught by the try of testVideoPlay
TV_GetFail ==
    /\ pc = "tv_get"
    /\ DriverCmd
    /\ caught' = "get failed"
    /\ pc' = "tv_catch"
    /\ UNCHANGED <<env, catalog, table, serial, now, pool, availableDevices, videos, device,
                   driver, i, results, result, playButton, sel, uncaught, exitCode, calls,
                   opAfterClose, lastOp, lastBatch, everError, stats, writes, tried, lastArg,
                   lastThrew>>

\* await driver.sleep(3000)
TV_SettleOk ==
    /\ pc = "tv_settle"
    /\ driver = "open"
    /\ DriverCmd
    /\ pc' = "tv_css"
    /\ UNCHANGED <<env, catalog, table, serial, now, pool, availableDevices, videos, device,
                   driver, i, results, result, playButton, sel, caught, uncaught, exitCode,
                   calls, opAfterClose, lastOp, lastBatch, everError, stats, writes, tried,
                   lastArg, lastThrew>>

\* driver.sleep(3000) rejects
TV_SettleFail ==
    /\ pc = "tv_settle"
    /\ DriverCmd
    /\ caught' = "sleep failed"
    /\ pc' = "tv_catch"
    /\ UNCHANGED <<env, catalog, table, serial, now, pool, availableDevices, videos, device,
                   driver, i, results, result, playButton, sel, uncaught, exitCode, calls,
                   opAfterClose, lastOp, lastBatch, everError, stats, writes, tried, lastArg,
                   lastThrew>>

\* playButtonSelectors[sel] locates an element: break out of the for loop
TV_CssLocated ==
    /\ pc = "tv_css"
    /\ driver = "open"
    /\ DriverCmd
    /\ playButton' = TRUE
    /\ result' = [result EXCEPT !.playButtonFound = TRUE]
    /\ pc' = "tv_click"
    /\ tried' = Append(tried, sel + 1)
    /\ UNCHANGED <<env, catalog, table, serial, now, pool, availableDevices, videos, device,
                   driver, i, results, sel, caught, uncaught, exitCode, calls, opAfterClose,
                   lastOp, lastBatch, everError, stats, writes, lastArg, lastThrew>>

\* mutant: after the last CSS selector the XPath lookup is skipped
TV_CssTimeout_SkipXPath ==
    /\ pc = "tv_css"
    /\ DriverCmd
    /\ sel' = sel + 1
    /\ pc' = IF sel + 1 < NumCssSelectors THEN "tv_css" ELSE "tv_notfound"
    /\ tried' = Append(tried, sel + 1)
    /\ UNCHANGED <<env, catalog, table, serial, now, pool, availableDevices, videos, device,
                   driver, i, results, result, playButton, caught, uncaught, exitCode, calls,
                   opAfterClose, lastOp, lastBatch, everError, stats, writes, lastArg,
                   lastThrew>>

\* driver.wait times out: catch (e) { /* Try next selector */ }
TV_CssTimeout ==
    /\ pc = "tv_css"
    /\ DriverCmd
    /\ sel' = sel + 1
    /\ pc' = IF sel + 1 < NumCssSelectors THEN "tv_css" ELSE "tv_xpath"
    /\ tried' = Append(tried, sel + 1)
    /\ UNCHANGED <<env, catalog, table, serial, now, pool, availableDevices, videos, device,
                   driver, i, results, result, playButton, caught, uncaught, exitCode, calls,
                   opAfterClose, lastOp, lastBatch, everError, stats, writes, lastArg,
                   lastThrew>>

\* if (!playButton): the XPath lookup locates an element
TV_XPathLocated ==
    /\ pc = "tv_xpath"
    /\ driver = "open"
    /\ DriverCmd
    /\ playButton' = TRUE
    /\ result' = [result EXCEPT !.playButtonFound = TRUE]
    /\ pc' = "tv_click"
    /\ tried' = Append(tried, NumCssSelectors + 1)
    /\ UNCHANGED <<env, catalog, table, serial, now, pool, availableDevices, videos, device,
                   driver, i, results, sel, caught, uncaught, exitCode, calls, opAfterClose,
                   lastOp, lastBatch, everError, stats, writes, lastArg, lastThrew>>

\* the XPath lookup times out: playButton stays null
TV_XPathTimeout ==
    /\ pc = "tv_xpath"
    /\ DriverCmd
    /\ pc' = "tv_notfound"
    /\ tried' = Append(tried, NumCssSelectors + 1)
    /\ UNCHANGED <<env, catalog, table, serial, now, pool, availableDevices, videos, device,
                   driver, i, results, result, playButton, sel, caught, uncaught, exitCode,
                   calls, opAfterClose, lastOp, lastBatch, everError, stats, writes, lastArg,
                   lastThrew>>

\* await playButton.click()
TV_ClickOk ==
    /\ pc = "tv_click"
    /\ playButton
    /\ driver = "open"
    /\ DriverCmd
    /\ result' = [result EXCEPT !.playButtonClicked = TRUE]
    /\ pc' = "tv_dwell"
    /\ UNCHANGED <<env, catalog, table, serial, now, pool, availableDevices, videos, device,
                   driver, i, results, playButton, sel, caught, uncaught, exitCode, calls,
                   opAfterClose, lastOp, lastBatch, everError, stats, writes, tried, lastArg,
                   lastThrew>>

\* playButton.click() rejects
TV_ClickFail ==
    /\ pc = "tv_click"
    /\ playButton
    /\ DriverCmd
    /\ caught' = "click failed"
    /\ pc' = "tv_catch"
    /\ UNCHANGED <<env, catalog, table, serial, now, pool, availableDevices, videos, device,
                   driver, i, results, result, playButton, sel, uncaught, exitCode, calls,
                   opAfterClose, lastOp, lastBatch, everError, stats, writes, tried, lastArg,
                   lastThrew>>

\* await driver.sleep(VIDEO_PLAY_WAIT); result.success = true
TV_DwellOk ==
    /\ pc = "tv_dwell"
    /\ driver = "open"
    /\ DriverCmd
    /\ result' = [result EXCEPT !.success = TRUE]
    /\ pc' = "tv_update"
    /\ UNCHANGED <<env, catalog, table, serial, now, pool, availableDevices, videos, device,
                   driver, i, results, playButton, sel, caught, uncaught, exitCode, calls,
                   opAfterClose, lastOp, lastBatch, everError, stats, writes, tried, lastArg,
                   lastThrew>>

\* driver.sleep(VIDEO_PLAY_WAIT) rejects
TV_DwellFail ==
    /\ pc = "tv_dwell"
    /\ DriverCmd
    /\ caught' = "sleep failed"
    /\ pc' = "tv_catch"
    /\ UNCHANGED <<env, catalog, table, serial, now, pool, availableDevices, videos, device,
                   driver, i, results, result, playButton, sel, uncaught, exitCode, calls,
                   opAfterClose, lastOp, lastBatch, everError, stats, writes, tried, lastArg,
                   lastThrew>>

\* await db.updateViewCount(videoRecord.id, deviceName)
TV_UpdateOk ==
    /\ pc = "tv_update"
    /\ pool = "open"
    /\ StoreCall("updateViewCount")
    /\ table' = updateViewCount(table, result.id, device.device, now)
    /\ now' = now + 1
    /\ pc' = "tv_return"
    /\ StoreArgs(<<result.id, device.device>>, FALSE)
    /\ OutcomeWrite("updateViewCount", TRUE)
    /\ UNCHANGED <<env, catalog, serial, pool, availableDevices, videos, device, driver, i,
                   results, result, playButton, sel, caught, uncaught, exitCode, cmdAfterQuit,
                   lastBatch, everError, stats, tried>>

\* db.updateViewCount rejects: caught by the try of testVideoPlay
TV_UpdateFail ==
    /\ pc = "tv_update"
    /\ StoreCall("updateViewCount")
    /\ caught' = "updateViewCount failed"
    /\ pc' = "tv_catch"
    /\ StoreArgs(<<result.id, device.device>>, TRUE)
    /\ OutcomeWrite("updateViewCount", FALSE)
    /\ UNCHANGED <<env, catalog, table, serial, now, pool, availableDevices, videos, device,
                   driver, i, results, result, playButton, sel, uncaught, exitCode,
                   cmdAfterQuit, lastBatch, everError, stats, tried>>

\* else: result.error = 'Play button not found'; await db.markError(...)
TV_NotFoundOk ==
    /\ pc = "tv_notfound"
    /\ ~playButton
    /\ pool = "open"
    /\ result' = [result EXCEPT !.error = "Play button not found"]
    /\ StoreCall("markError")
    /\ table' = markError(table, result.id, "Play button not found", now)
    /\ everError' = everError \cup {result.id}
    /\ now' = now + 1
    /\ pc' = "tv_return"
    /\ StoreArgs(<<result.id, "Play button not found">>, FALSE)
    /\ OutcomeWrite("markError", TRUE)
    /\ UNCHANGED <<env, catalog, serial, pool, availableDevices, videos, device, driver, i,
                   results, playButton, sel, caught, uncaught, exitCode, cmdAfterQuit,
                   lastBatch, stats, tried>>

\* else: db.markError rejects: caught by the try of testVideoPlay
TV_NotFoundFail ==
    /\ pc = "tv_notfound"
    /\ ~playButton
    /\ result' = [result EXCEPT !.error = "Play button not found"]
    /\ StoreCall("markError")
    /\ caught' = "markError failed"
    /\ pc' = "tv_catch"
    /\ StoreArgs(<<result.id, "Play button not found">>, TRUE)
    /\ OutcomeWrite("markError", FALSE)
    /\ UNCHANGED <<env, catalog, table, serial, now, pool, availableDevices, videos, device,
                   driver, i, results, playButton, sel, uncaught, exitCode, cmdAfterQuit,
                   lastBatch, everError, stats, tried>>

\* catch (error): result.error = error.message; await db.markError(...)
TV_CatchOk ==
    /\ pc = "tv_catch"
    /\ pool = "open"
    /\ result' = [result EXCEPT !.error = caught]
    /\ StoreCall("markError")
    /\ table' = markError(table, result.id, caught, now)
    /\ everError' = everError \cup {result.id}
    /\ now' = now + 1
    /\ pc' = "tv_return"
    /\ StoreArgs(<<result.id, caught>>, FALSE)
    /\ OutcomeWrite("markError", TRUE)
    /\ UNCHANGED <<env, catalog, serial, pool, availableDevices, videos, device, driver, i,
                   results, playButton, sel, caught, uncaught, exitCode, cmdAfterQuit,
                   lastBatch, stats, tried>>

\* mutant: the error leaving testVideoPlay bypasses the finally block
TV_CatchFail_SkipFinally ==
    /\ pc = "tv_catch"
    /\ StoreCall("markError")
    /\ result' = NoResult
    /\ playButton' = FALSE
    /\ sel' = 0
    /\ caught' = NullText
    /\ Throw("markError failed")
    /\ StoreArgs(<<result.id, caught>>, TRUE)
    /\ OutcomeWrite("markError", FALSE)
    /\ tried' = <<>>
    /\ UNCHANGED <<env, catalog, table, serial, now, pool, availableDevices, videos, device,
                   driver, i, results, exitCode, cmdAfterQuit, lastBatch, everError, stats>>

\* catch (error): db.markError rejects: the error leaves testVideoPlay and the
\* for loop; no result is returned
TV_CatchFail ==
    /\ pc = "tv_catch"
    /\ StoreCall("markError")
    /\ result' = NoResult
    /\ playButton' = FALSE
    /\ sel' = 0
    /\ caught' = NullText
    /\ uncaught' = "markError failed"
    /\ pc' = "finally"
    /\ StoreArgs(<<result.id, caught>>, TRUE)
    /\ OutcomeWrite("markError", FALSE)
    /\ tried' = <<>>
    /\ UNCHANGED <<env, catalog, table, serial, now, pool, availableDevices, videos, device,
                   driver, i, results, exitCode, cmdAfterQuit, lastBatch, everError, stats>>

\* return result; results.push(result); then the pause between videos unless
\* this was the last one
TV_Return ==
    /\ pc = "tv_return"
    /\ results' = Append(results, result)
    /\ result' = NoResult
    /\ playButton' = FALSE
    /\ sel' = 0
    /\ caught' = NullText
    /\ IF i < Len(videos) - 1
       THEN pc' = "gap" /\ i' = i
       ELSE pc' = "loop" /\ i' = i + 1
    /\ tried' = <<>>
    /\ UNCHANGED <<env, catalog, table, serial, now, pool, availableDevices, videos, device,
                   driver, uncaught, exitCode, calls, opAfterClose, cmdAfterQuit, lastOp,
                   lastBatch, everError, stats, writes, lastArg, lastThrew>>

(***************************************************************************)
(* One run of the runner                                                   *)
(***************************************************************************)
Next ==
    \/ ValidateEnv \/ LoadDevices
    \/ InitSchemaOk \/ InitSchemaFail
    \/ GetBatchOk \/ GetBatchFail
    \/ CloseEmpty
    \/ SelectDevice
    \/ BuildOk \/ BuildFail \/ CloseSessionFail
    \/ LoopStep
    \/ TV_GetOk \/ TV_GetFail
    \/ TV_SettleOk \/ TV_SettleFail
    \/ TV_CssLocated \/ TV_CssTimeout
    \/ TV_XPathLocated \/ TV_XPathTimeout
    \/ TV_ClickOk \/ TV_ClickFail
    \/ TV_DwellOk \/ TV_DwellFail
    \/ TV_UpdateOk \/ TV_UpdateFail
    \/ TV_NotFoundOk \/ TV_NotFoundFail
    \/ TV_CatchOk \/ TV_CatchFail
    \/ TV_Return
    \/ GapOk \/ GapFail
    \/ QuitOk \/ QuitFail
    \/ StatsOk \/ StatsFail
    \/ CloseEnd
    \/ Catch

Spec == Init /\ [][Next]_vars

TypeOK ==
    /\ pc \in {"start", "load", "initSchema", "getBatch", "closeEmpty", "selectDevice", "build",
               "closeSessionFail", "loop", "tv_get", "tv_settle", "tv_css", "tv_xpath", "tv_click",
               "tv_dwell", "tv_update", "tv_notfound", "tv_catch", "tv_return", "gap", "finally",
               "stats", "closeEnd", "catch", "exited", "store", "loader", "loaded", "picked"}
    /\ exitCode \in {NoExit, 0, 1}
    /\ pool \in {"open", "ended"}
    /\ driver \in {"none", "open", "quit"}

(***************************************************************************)
(* The store's exported API, called in any order by any client             *)
(***************************************************************************)
Urls == 1..MaxRows
UserNames == {"user", "other"}
Devices == {"Google Pixel 7"}
Messages == {"Play button not found"}

\* the rows of one bulkInsertUrls call
UrlLists == UNION {[1..n -> Urls] : n \in 1..2}

\* the INSERTs of bulkInsertUrls, in order; every INSERT draws an id from the
\* sequence, whether or not its url conflicts
RECURSIVE insertAll(_, _, _, _)
insertAll(t, id, urls, ts) ==
    IF urls = <<>> THEN t
    ELSE insertAll(insertRow(t, id, Head(urls), "user", ts), id + 1, Tail(urls), ts)

\* the table as the transaction sees it when it ends: every INSERT done, or
\* those before the INSERT of row failAt, which is rejected (failAt = 0: none is)
InTransaction(t, id, urls, failAt, ts) ==
    insertAll(t, id, IF failAt = 0 THEN urls ELSE SubSeq(urls, 1, failAt - 1), ts)

\* mutant: the INSERTs are not undone when one is rejected
bulkInsertUrls_NoRollback(t, id, urls, failAt, ts) == InTransaction(t, id, urls, failAt, ts)

\* BEGIN ... COMMIT, or catch (e) { ROLLBACK; throw e }
bulkInsertUrls(t, id, urls, failAt, ts) ==
    IF failAt = 0 THEN InTransaction(t, id, urls, failAt, ts) ELSE t

InitStore ==
    /\ env \in {[DATABASE_URL |-> TRUE, BROWSERSTACK_USERNAME |-> TRUE, BROWSERSTACK_ACCESS_KEY |-> TRUE]}
    /\ catalog = CatalogFile("unreadable", <<>>)
    /\ table = <<>>
    /\ serial = 1
    /\ now = 1
    /\ pool = "open"
    /\ pc = "store"
    /\ InitRunLocals
    /\ InitHist

\* insertUrl(urlData)
S_InsertUrl(url, userName) ==
    /\ pc = "store"
    /\ serial <= MaxSerial
    /\ now < MaxClock
    /\ table' = insertRow(table, serial, url, userName, now)
    /\ serial' = serial + 1
    /\ now' = now + 1
    /\ lastOp' = "insertUrl"
    /\ StoreArgs(<<url, userName>>, FALSE)
    /\ ForgetReads
    /\ UNCHANGED <<env, catalog, pool, pc, availableDevices, videos, device, driver, i,
                   results, result, playButton, sel, caught, uncaught, exitCode, calls,
                   opAfterClose, cmdAfterQuit, everError, writes, tried>>

\* bulkInsertUrls(urls); the sequence is not rolled back with the transaction
S_BulkInsertUrls(urls, failAt) ==
    /\ pc = "store"
    /\ serial + Len(urls) - 1 <= MaxSerial
    /\ now < MaxClock
    /\ failAt \in 0..Len(urls)
    /\ table' = bulkInsertUrls(table, serial, urls, failAt, now)
    /\ serial' = serial + (IF failAt = 0 THEN Len(urls) ELSE failAt)
    /\ now' = now + 1
    /\ lastOp' = "bulkInsertUrls"
    /\ StoreArgs(<<urls>>, failAt # 0)
    /\ ForgetReads
    /\ UNCHANGED <<env, catalog, pool, pc, availableDevices, videos, device, driver, i,
                   results, result, playButton, sel, caught, uncaught, exitCode, calls,
                   opAfterClose, cmdAfterQuit, everError, writes, tried>>

\* updateViewCount(id, deviceUsed)
S_UpdateViewCount(id, deviceUsed) ==
    /\ pc = "store"
    /\ now < MaxClock
    /\ table' = updateViewCount(table, id, deviceUsed, now)
    /\ now' = now + 1
    /\ lastOp' = "updateViewCount"
    /\ StoreArgs(<<id, deviceUsed>>, FALSE)
    /\ ForgetReads
    /\ UNCHANGED <<env, catalog, serial, pool, pc, availableDevices, videos, device, driver, i,
                   results, result, playButton, sel, caught, uncaught, exitCode, calls,
                   opAfterClose, cmdAfterQuit, everError, writes, tried>>

\* markError(id, errorMessage)
S_MarkError(id, errorMessage) ==
    /\ pc = "store"
    /\ now < MaxClock
    /\ table' = markError(table, id, errorMessage, now)
    /\ everError' = everError \cup {r.id : r \in {x \in Range(table) : x.id = id}}
    /\ now' = now + 1
    /\ lastOp' = "markError"
    /\ StoreArgs(<<id, errorMessage>>, FALSE)
    /\ ForgetReads
    /\ UNCHANGED <<env, catalog, serial, pool, pc, availableDevices, videos, device, driver, i,
                   results, result, playButton, sel, caught, uncaught, exitCode, calls,
                   opAfterClose, cmdAfterQuit, writes, tried>>

\* getNextBatch(limit)
S_GetNextBatch(limit) ==
    /\ pc = "store"
    /\ lastBatch' \in getNextBatch(table, limit)
    /\ lastOp' = "getNextBatch"
    /\ StoreArgs(<<limit>>, FALSE)
    /\ stats' = NoStats
    /\ UNCHANGED <<env, catalog, table, serial, now, pool, pc, availableDevices, videos,
                   device, driver, i, results, result, playButton, sel, caught, uncaught,
                   exitCode, calls, opAfterClose, cmdAfterQuit, everError, writes, tried>>

\* getStats()
S_GetStats ==
    /\ pc = "store"
    /\ stats' = getStats(table)
    /\ lastOp' = "getStats"
    /\ StoreArgs(<<>>, FALSE)
    /\ lastBatch' = <<>>
    /\ UNCHANGED <<env, catalog, table, serial, now, pool, pc, availableDevices, videos,
                   device, driver, i, results, result, playButton, sel, caught, uncaught,
                   exitCode, calls, opAfterClose, cmdAfterQuit, everError, writes, tried>>

StoreNext ==
    \/ \E url \in Urls, userName \in UserNames : S_InsertUrl(url, userName)
    \/ \E urls \in UrlLists, failAt \in 0..2 : S_BulkInsertUrls(urls, failAt)
    \/ \E id \in 1..MaxSerial, deviceUsed \in Devices : S_UpdateViewCount(id, deviceUsed)
    \/ \E id \in 1..MaxSerial, errorMessage \in Messages : S_MarkError(id, errorMessage)
    \/ \E limit \in 0..(MaxRows + 1) : S_GetNextBatch(limit)
    \/ S_GetStats

StoreSpec == InitStore /\ [][StoreNext]_vars

(***************************************************************************)
(* Vocabulary of the properties                                            *)
(***************************************************************************)
Exited == pc = "exited"
ConfigMissing == ~env.DATABASE_URL \/ ~CredentialsPresent(env)
\* getNextBatch returned (videos is the batch)
BatchFetched == calls["getNextBatch"] = 1 /\ uncaught # "getNextBatch failed"
BatchEmpty == BatchFetched /\ Len(videos) = 0
SessionOpened == driver # "none"
SessionOpenFailed == calls["build"] = 1 /\ driver = "none"
\* the for loop over videos has been left
LoopLeft == SessionOpened /\ pc \in {"finally", "stats", "closeEnd", "catch", "exited"}
AllSucceeded ==
    /\ BatchFetched
    /\ Len(videos) > 0
    /\ Len(results) = Len(videos)
    /\ \A k \in 1..Len(results) : results[k].success
SomeFailed == \E k \in 1..Len(results) : ~results[k].success
NoOutcomeWritten == calls["updateViewCount"] = 0 /\ calls["markError"] = 0

(***************************************************************************)
(* Properties                                                              *)
(***************************************************************************)

\* C1: once the session is open, a failure while processing a record (the
\* only other way out of the loop is a failed pause between two videos) never
\* aborts the batch: when the loop is left, testVideoPlay was invoked for each
\* of the n records, n results were collected, and every result that carries
\* an error has success = false and its record has status 'error'.
C1_FailureNeverAbortsBatch ==
    (LoopLeft /\ uncaught # "sleep failed") =>
        /\ calls["testVideoPlay"] = Len(videos)
        /\ Len(results) = Len(videos)
        /\ \A k \in 1..Len(results) :
              results[k].error # NullText =>
                  ~results[k].success /\ StatusOf(table, results[k].id) = "error"

\* C2: for every record processed by testVideoPlay, success = true means
\* view_count is the batch's value plus 1 and status 'completed'; success =
\* false means status 'error' and view_count unchanged.
C2_OutcomeMatchesRecord ==
    \A k \in 1..Len(results) :
        LET r == results[k]
            before == videos[k].view_count
        IN  /\ r.id = videos[k].id
            /\ r.success => ViewCountOf(table, r.id) = before + 1 /\ StatusOf(table, r.id) = "completed"
            /\ ~r.success => ViewCountOf(table, r.id) = before /\ StatusOf(table, r.id) = "error"

\* C3: at most one session is opened per run; an opened session is quit
\* exactly once on every path out of the video loop (normal end, or an error
\* leaving testVideoPlay or the loop), and no driver command follows the quit.
C3_SessionQuitOnce ==
    /\ calls["build"] <= 1
    /\ calls["quit"] <= 1
    /\ ~SessionOpened => calls["quit"] = 0
    /\ (SessionOpened /\ pc \in {"stats", "closeEnd", "catch", "exited"}) =>
           calls["quit"] = 1 /\ driver = "quit"
    /\ ~cmdAfterQuit

\* C3 witness: testVideoPlay raised after an earlier record was processed,
\* the session was quit and the run has ended.
C3_Witness ==
    /\ Exited
    /\ uncaught = "markError failed"
    /\ Len(results) >= 1
    /\ calls["quit"] = 1

\* C4: status 'error' is terminal in the store: a record whose status was
\* ever set to 'error' is in no later getNextBatch result.
C4_ErrorIsTerminal ==
    lastOp = "getNextBatch" =>
        \A k \in 1..Len(lastBatch) : lastBatch[k].id \notin everError

\* C5 as stated: the exit status is 0 exactly when the batch was empty or
\* every record of the batch succeeded, and 1 when configuration is missing,
\* the session fails to open, or a record failed.
C5_ExitStatusAsStated ==
    Exited =>
        /\ exitCode = 0 <=> (BatchEmpty \/ AllSucceeded)
        /\ (ConfigMissing \/ SessionOpenFailed \/ SomeFailed) => exitCode = 1

\* C5 amended: the exit status is 0 exactly when no error left runTests
\* uncaught and the batch was empty or every record's TestResult has
\* success = true; otherwise it is 1 (missing configuration, failed session
\* open, an uncaught error, or a TestResult with success = false).
C5_ExitStatus ==
    Exited =>
        /\ exitCode \in {0, 1}
        /\ exitCode = 0 <=> (uncaught = NullText /\ (BatchEmpty \/ AllSucceeded))
        /\ (ConfigMissing \/ SessionOpenFailed \/ SomeFailed \/ uncaught # NullText) => exitCode = 1

\* C5 witness: a run over a non-empty batch ended with status 0.
C5_Witness ==
    /\ Exited
    /\ exitCode = 0
    /\ Len(results) >= 1

\* C6 as stated: on every path by which a run ends, close() is called
\* exactly once and no other store operation follows it.
C6_CloseOnceAsStated ==
    /\ Exited => calls["close"] = 1
    /\ ~opAfterClose

\* C6 amended: on every path by which a run ends after the configuration was
\* found complete (empty batch, failed session open, normal completion,
\* uncaught error), close() is called exactly once and no other store
\* operation follows it; on the missing-configuration path close() is not
\* called at all.
C6_CloseOnce ==
    /\ calls["close"] <= 1
    /\ Exited => calls["close"] = (IF ConfigMissing THEN 0 ELSE 1)
    /\ calls["close"] = 1 <=> pool = "ended"
    /\ ~opAfterClose

\* C6 witness: a run whose session failed to open has ended with the store
\* closed once.
C6_Witness ==
    /\ Exited
    /\ SessionOpenFailed
    /\ calls["close"] = 1

\* C7: when a step of runTests raises an error it does not handle, close()
\* is attempted before the process exits, and the exit status is not 0.
C7_UncaughtErrorClosesStore ==
    (Exited /\ uncaught # NullText) =>
        /\ calls["close"] >= 1
        /\ pool = "ended"
        /\ exitCode = 1

\* C7 witness: getStats raised after the batch, and the run has ended.
C7_Witness ==
    /\ Exited
    /\ uncaught = "getStats failed"
    /\ Len(results) >= 1

\* C8: when opening the session fails, testVideoPlay is never invoked,
\* neither updateViewCount nor markError is called, and the run ends with the
\* store closed and status 1.
C8_SessionOpenFailure ==
    SessionOpenFailed =>
        /\ pc \in {"closeSessionFail", "exited"}
        /\ calls["testVideoPlay"] = 0
        /\ NoOutcomeWritten
        /\ Exited => calls["close"] = 1 /\ pool = "ended" /\ exitCode = 1

\* C8 witness: the session failed to open for a non-empty batch and the run
\* has ended.
C8_Witness ==
    /\ Exited
    /\ SessionOpenFailed
    /\ Len(videos) >= 1

\* C9: when getNextBatch returns the empty sequence, no device is selected,
\* no session is opened, no record is mutated, and the run ends with the
\* store closed and status 0.
C9_EmptyBatch ==
    BatchEmpty =>
        /\ pc \in {"closeEmpty", "exited"}
        /\ calls["getRandomDevice"] = 0
        /\ calls["build"] = 0
        /\ ~SessionOpened
        /\ NoOutcomeWritten
        /\ Exited => calls["close"] = 1 /\ pool = "ended" /\ exitCode = 0

\* C9 witness: a table that holds only 'error' rows gave an empty batch and
\* the run has ended.
C9_Witness ==
    /\ Exited
    /\ BatchEmpty
    /\ Len(table) >= 1

\* C10: when DATABASE_URL, BROWSERSTACK_USERNAME or BROWSERSTACK_ACCESS_KEY is
\* absent, the process exits with status 1 before the catalog is loaded, a
\* session is opened or any store operation is issued.
C10_MissingConfiguration ==
    ConfigMissing =>
        /\ pc \in {"start", "exited"}
        /\ Exited => exitCode = 1
        /\ calls["loadMobileDevices"] = 0
        /\ calls["build"] = 0
        /\ \A o \in StoreOps : calls[o] = 0

\* C10 witness: a run with the database location present and the access key
\* absent has ended.
C10_Witness ==
    /\ Exited
    /\ env.DATABASE_URL
    /\ env.BROWSERSTACK_USERNAME
    /\ ~env.BROWSERSTACK_ACCESS_KEY

\* C11: a record's view_count never decreases and changes only through
\* updateViewCount on its id, by exactly +1 per call; insertUrl (also of a url
\* that exists), bulkInsertUrls, getNextBatch and getStats leave every
\* existing record as it is, and markError leaves its view_count as it is.
C11_ViewCountOnlyIncrements ==
    [][\A k \in 1..Len(table) :
          LET r == table[k]
              updated == lastOp' = "updateViewCount" /\ lastArg'[1] = r.id
          IN  /\ k <= Len(table')
              /\ table'[k].id = r.id
              /\ table'[k].view_count >= r.view_count
              /\ table'[k].view_count # r.view_count => updated
              /\ updated => table'[k].view_count = r.view_count + 1
              /\ lastOp' \in {"insertUrl", "bulkInsertUrls", "getNextBatch", "getStats"} =>
                     table'[k] = r]_vars

\* C11 witness: insertUrl was called for the url of a record that has been
\* played, and the record still has its view.
C11_Witness ==
    /\ lastOp = "insertUrl"
    /\ Len(table) = 1
    /\ lastArg[1] = table[1].url
    /\ table[1].view_count = 1
    /\ table[1].status = "completed"

\* the ordering the query is documented to use, stated on two rows: r1 may
\* come before r2
MayPrecede(r1, r2) ==
    \/ r1.view_count < r2.view_count
    \/ /\ r1.view_count = r2.view_count
       /\ \/ r1.last_played_at = NullTime
          \/ r2.last_played_at # NullTime /\ r1.last_played_at <= r2.last_played_at

\* C12: getNextBatch(limit) returns exactly min(limit, number of records
\* whose status is not 'error') records, each a distinct record whose status
\* is not 'error', in ascending view_count with ties in ascending
\* last_played_at (null first), and no record left out comes before one
\* returned; with no qualifying record the result is empty.
C12_NextBatchIsLeastViewedPrefix ==
    lastOp = "getNextBatch" =>
        LET limit == lastArg[1]
            qualifying == {r \in Range(table) : r.status # "error"}
            returned == {r \in qualifying : \E k \in 1..Len(lastBatch) : lastBatch[k].id = r.id}
        IN  /\ Len(lastBatch) = (IF limit < Cardinality(qualifying) THEN limit ELSE Cardinality(qualifying))
            /\ Cardinality(returned) = Len(lastBatch)
            /\ \A k \in 1..Len(lastBatch) :
                  \E r \in qualifying :
                      /\ r.id = lastBatch[k].id
                      /\ r.url = lastBatch[k].url
                      /\ r.view_count = lastBatch[k].view_count
            /\ \A a, b \in 1..Len(lastBatch) :
                  a < b => MayPrecede(RowOf(table, lastBatch[a].id), RowOf(table, lastBatch[b].id))
            /\ \A r \in qualifying \ returned :
                  \A k \in 1..Len(lastBatch) : MayPrecede(RowOf(table, lastBatch[k].id), r)
            /\ qualifying = {} => lastBatch = <<>>

\* C12 witness: getNextBatch(1) was called on two qualifying records with the
\* same view_count and different last_played_at, and returned the one played
\* first.
C12_Witness ==
    /\ lastOp = "getNextBatch"
    /\ lastArg = <<1>>
    /\ Len(table) = 2
    /\ table[1].status = "completed" /\ table[2].status = "completed"
    /\ table[1].view_count = table[2].view_count
    /\ table[1].last_played_at < table[2].last_played_at
    /\ Len(lastBatch) = 1
    /\ lastBatch[1].id = table[1].id

\* C13: whatever the state of the catalog file, loadMobileDevices returns a
\* non-empty sequence, so getRandomDevice in runTests returns a member of it;
\* on a read or parse failure the result is exactly the three fallback
\* profiles.
C13_DevicesNeverEmpty ==
    calls["loadMobileDevices"] >= 1 =>
        /\ availableDevices # <<>>
        /\ CatalogFails(catalog) => availableDevices = FallbackDevices
        /\ calls["getRandomDevice"] >= 1 => device \in Range(availableDevices)

(***************************************************************************)
(* The catalog loader on its own, over every catalog of a few descriptors  *)
(***************************************************************************)
\* descriptors in the catalog
MaxCatalog == 3

PixelChrome == [device |-> "Google Pixel 7", os_version |-> "13.0", os |-> "android", real_mobile |-> TRUE, browser |-> "chrome"]
\* same device and os_version as PixelChrome, another descriptor
PixelFirefox == [device |-> "Google Pixel 7", os_version |-> "13.0", os |-> "android", real_mobile |-> TRUE, browser |-> "firefox"]
\* two pairs whose keys are the same string, "Galaxy Tab-S8-12"
TabS8 == [device |-> "Galaxy Tab-S8", os_version |-> "12", os |-> "android", real_mobile |-> TRUE]
TabOther == [device |-> "Galaxy Tab", os_version |-> "S8-12", os |-> "android", real_mobile |-> TRUE]

CatalogEntries == {PixelChrome, PixelFirefox, Emulator, IPhone, TabS8, TabOther}

LoaderCatalogs ==
    {CatalogFile(st, <<>>) : st \in {"unreadable", "unparseable", "notArray"}}
    \cup {CatalogFile("ok", bs) : bs \in UNION {[1..n -> CatalogEntries] : n \in 0..MaxCatalog}}

InitLoader ==
    /\ env \in {[DATABASE_URL |-> TRUE, BROWSERSTACK_USERNAME |-> TRUE, BROWSERSTACK_ACCESS_KEY |-> TRUE]}
    /\ catalog \in LoaderCatalogs
    /\ table = <<>>
    /\ serial = 1
    /\ now = 1
    /\ pool = "open"
    /\ pc = "loader"
    /\ InitRunLocals
    /\ InitHist

\* loadMobileDevices()
L_Load ==
    /\ pc = "loader"
    /\ availableDevices' = loadMobileDevices(catalog)
    /\ Called("loadMobileDevices")
    /\ pc' = "loaded"
    /\ UNCHANGED <<env, catalog, table, serial, now, pool, videos, device, driver, i, results,
                   result, playButton, sel, caught, uncaught, exitCode, opAfterClose,
                   cmdAfterQuit, lastOp, lastBatch, everError, stats, writes, tried, lastArg,
                   lastThrew>>

\* getRandomDevice(devices) on the loaded list
L_Pick ==
    /\ pc = "loaded"
    /\ Called("getRandomDevice")
    /\ device' \in getRandomDevice(availableDevices)
    /\ pc' = "picked"
    /\ UNCHANGED <<env, catalog, table, serial, now, pool, availableDevices, videos, driver, i,
                   results, result, playButton, sel, caught, uncaught, exitCode, opAfterClose,
                   cmdAfterQuit, lastOp, lastBatch, everError, stats, writes, tried, lastArg,
                   lastThrew>>

LoaderNext == L_Load \/ L_Pick

LoaderSpec == InitLoader /\ [][LoaderNext]_vars

\* C14: for every catalog that parses, loadMobileDevices returns only
\* descriptors whose real_mobile is true, each (device, os_version) pair at
\* most once, the descriptor kept for a pair being the first real-device
\* descriptor of that pair in the catalog, in catalog order.
C14_UniqueFirstSeen ==
    (pc \in {"loaded", "picked"} /\ ~CatalogFails(catalog)) =>
        LET inp == catalog.browsers
            out == availableDevices
            SamePair(x, y) == x.device = y.device /\ x.os_version = y.os_version
        IN  /\ \A k \in 1..Len(out) : out[k].real_mobile = TRUE
            /\ \A a, b \in 1..Len(out) : a # b => ~SamePair(out[a], out[b])
            /\ \E f \in [1..Len(out) -> 1..Len(inp)] :
                  /\ \A a, b \in 1..Len(out) : a < b => f[a] < f[b]
                  /\ \A k \in 1..Len(out) :
                        /\ inp[f[k]] = out[k]
                        /\ \A j \in 1..(f[k] - 1) :
                              ~(inp[j].real_mobile = TRUE /\ SamePair(inp[j], out[k]))

\* C14 witness: a catalog with two different real-device descriptors of one
\* pair, the second one repeated after another device, has been loaded.
C14_Witness ==
    /\ pc = "loaded"
    /\ catalog = CatalogFile("ok", <<PixelChrome, IPhone, PixelFirefox>>)
    /\ availableDevices = <<PixelChrome, IPhone>>

\* C15: bulkInsertUrls is all-or-nothing: when an INSERT of the call is
\* rejected the error reaches the caller and the table is the table before
\* the call; otherwise every url of the call is in the table afterwards,
\* the rows that existed are unchanged and every new row is a row of the call.
C15_BulkInsertAtomic ==
    [][lastOp' = "bulkInsertUrls" =>
          LET urls == lastArg'[1] IN
          IF lastThrew'
          THEN table' = table
          ELSE /\ \A k \in 1..Len(urls) : HasUrl(table', urls[k])
               /\ Len(table') >= Len(table)
               /\ \A k \in 1..Len(table) : table'[k] = table[k]
               /\ \A k \in (Len(table) + 1)..Len(table') :
                     /\ table'[k].url \in Range(urls)
                     /\ ~HasUrl(table, table'[k].url)
                     /\ table'[k].view_count = 0
                     /\ table'[k].status = "pending"]_vars

\* C15 witness: a call of two rows whose second INSERT was rejected has
\* ended, and the url of its first row, absent before, is not in the table.
C15_Witness ==
    /\ lastOp = "bulkInsertUrls"
    /\ lastThrew
    /\ Len(lastArg[1]) = 2
    /\ Len(table) = 1
    /\ ~HasUrl(table, lastArg[1][1])
    /\ serial >= 3

\* testVideoPlay is running
InTestVideoPlay ==
    pc \in {"tv_get", "tv_settle", "tv_css", "tv_xpath", "tv_click", "tv_dwell", "tv_update",
            "tv_notfound", "tv_catch", "tv_return"}

\* position of a record in the batch
BatchIndex(id) == CHOOSE k \in 1..Len(videos) : videos[k].id = id

\* C16: the records of a batch are processed one at a time in the order
\* getNextBatch returned them: while record i+1 is processed the results of
\* records 1..i, and no others, are collected, in batch order, each with its
\* outcome written to the store; outside testVideoPlay no record is in
\* process; and the outcome writes follow the batch order.
C16_SequentialInBatchOrder ==
    /\ Len(results) <= Len(videos)
    /\ \A k \in 1..Len(results) : results[k].id = videos[k].id
    /\ InTestVideoPlay =>
           /\ i < Len(videos)
           /\ Len(results) = i
           /\ result.id = videos[i + 1].id
           /\ \A k \in 1..i : \E j \in 1..Len(writes) : writes[j].id = videos[k].id /\ writes[j].ok
           /\ \A j \in 1..Len(writes) : BatchIndex(writes[j].id) <= i + 1
    /\ ~InTestVideoPlay => result = NoResult
    /\ \A a, b \in 1..Len(writes) : a < b => BatchIndex(writes[a].id) <= BatchIndex(writes[b].id)

\* C16 witness: the navigation of the second record of a batch is about to
\* start; the batch order differs from the table order.
C16_Witness ==
    /\ pc = "tv_get"
    /\ i = 1
    /\ videos[1].id = 2
    /\ videos[2].id = 1
    /\ Len(results) = 1
    /\ results[1].id = 2
    /\ result.id = 1

\* the lookup strategies in the order of the code: the CSS selectors, then the XPath lookup
AllStrategies == [k \in 1..(NumCssSelectors + 1) |-> k]

\* C17: within one video the strategies are tried in the fixed order 1..5,
\* each at most once (a lookup is always the next untried strategy), and only
\* while no element is located; the lookup that locates an element leads to
\* the click; the 'Play button not found' branch, its report and its
\* markError call happen only after all five strategies failed.
C17_StrategiesInOrderOnce ==
    [][/\ (tried' # tried /\ tried' # <<>>) =>
              /\ ~playButton
              /\ Len(tried) < Len(AllStrategies)
              /\ tried' = Append(tried, AllStrategies[Len(tried) + 1])
              /\ playButton' => pc' = "tv_click"
              /\ ~playButton' =>
                     pc' = (IF tried' = AllStrategies THEN "tv_notfound"
                            ELSE IF Len(tried') = NumCssSelectors THEN "tv_xpath" ELSE "tv_css")
       /\ (pc' = "tv_click" /\ pc # "tv_click") => (playButton' /\ tried' # tried)
       /\ pc' = "tv_notfound" => (tried' = AllStrategies /\ ~playButton')
       /\ (result'.error = "Play button not found" /\ result.error # "Play button not found") =>
              /\ pc = "tv_notfound"
              /\ tried = AllStrategies
              /\ ~result.playButtonFound
              /\ lastOp' = "markError"
              /\ lastArg' = <<result.id, "Play button not found">>
      ]_vars

\* C17 witness: the first record of the batch was reported 'Play button not
\* found' after five failed lookups, and the third strategy has just located
\* the control of the second record.
C17_Witness ==
    /\ pc = "tv_click"
    /\ tried = <<1, 2, 3>>
    /\ playButton
    /\ Len(results) = 1
    /\ results[1].error = "Play button not found"
    /\ ~results[1].playButtonFound

\* the three consistency conditions on one TestResult
Consistent(r) ==
    /\ r.success => r.playButtonClicked
    /\ r.playButtonClicked => r.playButtonFound
    /\ r.success <=> (r.error = NullText)

\* C18: every TestResult returned by testVideoPlay (the one at its return
\* statement and those already collected by runTests) is consistent: success
\* implies playButtonClicked, playButtonClicked implies playButtonFound, and
\* success holds exactly when error is null.
C18_ResultConsistent ==
    /\ pc = "tv_return" => Consistent(result)
    /\ \A k \in 1..Len(results) : Consistent(results[k])

\* the outcome writes issued for a record in this run
WritesOf(id) == {j \in 1..Len(writes) : writes[j].id = id}

\* C19: a run that exits with status 0 after a non-empty batch leaves every
\* record of the batch with status 'completed'; and at the end of the loop each
\* processed record has had exactly one outcome write, updateViewCount or
\* markError, never both.
C19_ExitZeroMeansAllCompleted ==
    /\ (Exited /\ exitCode = 0 /\ Len(videos) > 0) =>
           \A k \in 1..Len(videos) : StatusOf(table, videos[k].id) = "completed"
    /\ \A k \in 1..Len(results) :
           /\ Cardinality(WritesOf(results[k].id)) = 1
           /\ \A a, b \in WritesOf(results[k].id) : writes[a].op = writes[b].op

====
